---- MODULE Spec2Model ----
(***************************************************************************)
(* Load-generation definitions of the repository:                          *)
(*   src/src/tests/load/locustfile.py   VibeZUser, WaveShape                *)
(*   src/locustfile.py                  ApiUser, WSUser                     *)
(* The user classes only declare tasks, weights and wait_time; the loop     *)
(* that runs them (pick a task, run it, wait) and the HTTP client belong to *)
(* the Locust harness the classes inherit from (HttpUser, WebSocketUser,    *)
(* LoadTestShape).  The harness is modelled by its behaviour at the places  *)
(* where the source calls into it.                                          *)
(***************************************************************************)
EXTENDS Integers, Sequences, FiniteSets, TLC

\* ------------------------------------------------------------------ bounds
\* Longest generated stage list (the configured lists are added to them).
MaxStages == 2
\* random.uniform(a, b) is sampled at UniformSteps + 1 evenly spaced points.
UniformSteps == 1

\* --------------------------------------------------------- Load shape
\* tick() returns a (users, spawn_rate) tuple or None, here the empty tuple.
None == << >>
NotTicked == << "NotTicked" >>

Stage(d, u, r) == [duration |-> d, users |-> u, spawn_rate |-> r]

\* WaveShape.stages
WaveStages ==
  << Stage(60, 100, 10), Stage(120, 500, 20), Stage(180, 1000, 50),
     Stage(240, 2000, 100), Stage(300, 500, 50) >>

\* for stage in self.stages: if run_time < stage["duration"]: return (...)
\* return None
RECURSIVE tickFrom(_, _, _)
RECURSIVE SumDurations(_, _)
SumDurations(stages, i) ==
  IF i = 0 THEN 0 ELSE stages[i].duration + SumDurations(stages, i - 1)
\* the shape repeated as a wave: the run time wraps at the last boundary
tickCyclic(stages, run_time, i) ==
  IF i > Len(stages) THEN None
  ELSE IF Len(stages) > 0
          /\ stages[Len(stages)].duration > 0
          /\ run_time % stages[Len(stages)].duration < stages[i].duration
       THEN << stages[i].users, stages[i].spawn_rate >>
       ELSE tickFrom(stages, run_time, i + 1)
\* durations read as lengths of the stages, added up along the list
tickRelative(stages, run_time, i) ==
  IF i > Len(stages) THEN None
  ELSE IF run_time < SumDurations(stages, i)
       THEN << stages[i].users, stages[i].spawn_rate >>
       ELSE tickFrom(stages, run_time, i + 1)
tickLE(stages, run_time, i) ==
  IF i > Len(stages) THEN None
  ELSE IF run_time <= stages[i].duration
       THEN << stages[i].users, stages[i].spawn_rate >>
       ELSE tickFrom(stages, run_time, i + 1)
tickFrom(stages, run_time, i) ==
  IF i > Len(stages) THEN None
  ELSE IF run_time < stages[i].duration
       THEN << stages[i].users, stages[i].spawn_rate >>
       ELSE tickFrom(stages, run_time, i + 1)

tick(stages, run_time) == tickFrom(stages, run_time, 1)

\* Stage lists the shape is exercised with: the configured one, the three
\* stage list of the specification's example, durations given as relative
\* lengths, and every list of at most MaxStages stages over a small domain
\* (which includes the empty list, unordered and repeated boundaries).
ExampleStages ==
  << Stage(60, 100, 10), Stage(120, 500, 20), Stage(180, 1000, 50) >>
RelativeStages ==
  << Stage(60, 100, 10), Stage(60, 500, 20), Stage(60, 1000, 50) >>
StageDomain ==
  { Stage(d, p[1], p[2]) : d \in {0, 60, 120}, p \in {<<100, 10>>, <<500, 20>>} }
StageLists ==
  {WaveStages, ExampleStages, RelativeStages}
    \cup UNION { [1..n -> StageDomain] : n \in 0..MaxStages }

\* Values the run clock is read at: the boundaries, times between them and
\* a time after the last one.
Elapsed == {0, 30, 60, 120, 180, 200, 240, 300, 330}

\* --------------------------------------------------------- User classes
\* Two virtual users run side by side; both come from the same locustfile.
Users == {"u1", "u2"}

LoadFile == {"VibeZUser"}
RootFile == {"ApiUser", "WSUser"}
Classes == LoadFile \cup RootFile

NoTask == "NoTask"
NoBranch == "NoBranch"

\* @task(n) declarations of each user class
WeightExtra(c) ==
  IF c = "VibeZUser"
    THEN [index |-> 10, view_room |-> 5, auth_callback_smoke |-> 2,
          websocket_fallback_simulation |-> 3, chaos_monkey |-> 1,
          undeclared |-> 1]
    ELSE IF c = "ApiUser" THEN [get_user |-> 7, create_room |-> 3]
    ELSE [join_room |-> 7, broadcast |-> 3]
Weight(c) ==
  IF c = "VibeZUser"
    THEN [index |-> 10, view_room |-> 5, auth_callback_smoke |-> 2,
          websocket_fallback_simulation |-> 3, chaos_monkey |-> 1]
    ELSE IF c = "ApiUser" THEN [get_user |-> 7, create_room |-> 3]
    ELSE [join_room |-> 7, broadcast |-> 3]

\* The list the harness picks from: each task repeated weight times.
TaskPool(c) ==
  UNION { { <<t, k>> : k \in 1..Weight(c)[t] } : t \in DOMAIN Weight(c) }

\* wait_time = between(min, max)
WaitRangeFromZero(c) == IF c = "VibeZUser" THEN <<0, 5>> ELSE <<0, 10>>
WaitRange(c) == IF c = "VibeZUser" THEN <<1, 5>> ELSE <<5, 10>>

\* random.uniform(a, b) = a + (b - a) * random(), in units of 1/UniformSteps
Uniform(a, b) == { a * UniformSteps + (b - a) * k : k \in 0..UniformSteps }
NoWait == 0 - 1

\* --------------------------------------------------------- HTTP client
\* What a request can come to: a response with a status code, a network
\* error of the requests library (Timeout, ConnectionError), or an exception
\* that is no RequestException (an invalid or schema-less URL from a bad
\* host setting) and is raised to the caller.
StatusCodes == {200, 204, 401, 403, 500}
NetErrors == {"Timeout", "ConnectionError"}
Outcomes ==
  [kind : {"response"}, status : StatusCodes]
    \cup [kind : NetErrors, status : {0}]
    \cup [kind : {"raise"}, status : {0}]
NoOutcome == [kind |-> "none", status |-> 0]
\* The client runs every request in safe mode: only an exception that is no
\* RequestException leaves it.
RaisesOnNetError(o) == o.kind # "response"
Raises(o) == o.kind = "raise"

NoRec == [name |-> "none", status |-> 0, exception |-> "none", result |-> "none"]

\* name= of the request each task issues
ReqName(t, b) ==
  CASE t = "index" -> "Home"
    [] t = "view_room" -> "View Room"
    [] t = "auth_callback_smoke" -> "/auth/callback"
    [] t = "websocket_fallback_simulation" -> "WS Fallback (HTTP Poll)"
    [] t = "chaos_monkey" /\ b = "latency" -> "Chaos: Latency"
    [] t = "chaos_monkey" /\ b = "drop" -> "Chaos: Packet Drop"
    [] t = "chaos_monkey" /\ b = "normal" -> "Chaos: Normal"
    [] t = "get_user" -> "/api/users/123"
    [] t = "create_room" -> "/api/rooms"
    [] OTHER -> "none"

\* catch_response=True
CatchResponse(t) == t = "websocket_fallback_simulation"

\* the request is issued inside try: ... except: pass
NoTry(t, b) == FALSE
InTry(t, b) == t = "chaos_monkey" /\ b = "drop"

\* A network error gives a response with status_code 0 carrying the error.
StatusOf(o) == o.status
ExceptionOf(o) ==
  IF o.kind \in NetErrors THEN o.kind
  ELSE IF o.status >= 400 THEN "HTTPError" ELSE "none"

\* Without catch_response the client records the request itself: a failure
\* when the response carries an error or an HTTP error status.
DefaultRecord(name, o) ==
  [name |-> name, status |-> StatusOf(o), exception |-> ExceptionOf(o),
   result |-> IF ExceptionOf(o) = "none" THEN "success" ELSE "failure"]

\* if response.status_code in [200, 401, 403]: response.success()
\* else: response.failure(...)
Marks2xx(status_code) ==
  IF status_code \in 200..299 THEN {"success"} ELSE {"failure"}
Marks(status_code) ==
  IF status_code \in {200, 401, 403} THEN {"success"} ELSE {"failure"}

\* With catch_response the marks made in the with block decide the record;
\* with no mark the default applies.
ManualRecord(name, o, m) ==
  IF m = {} THEN DefaultRecord(name, o)
  ELSE [name |-> name, status |-> StatusOf(o),
        exception |-> IF "failure" \in m THEN "CatchResponseError" ELSE "none",
        result |-> IF "failure" \in m THEN "failure" ELSE "success"]

\* --------------------------------------------------------- Harness
\* Calls that suspend a greenlet.  Importing locust patches time, socket
\* and friends with their gevent versions, so each of them yields to the
\* other greenlets instead of holding the thread.
Suspended == {"wait", "sleep", "request"}
YieldsButSleep(p) == p \in {"wait", "request"}
Yields(p) == p \in {"wait", "sleep", "request"}

\* The run loop after a task returned or raised: both paths wait.
AfterTaskNoWaitOnError(raised) == IF raised THEN "ready" ELSE "wait"
AfterTask(raised) == "wait"

VARIABLES
  cls,        \* user -> its class
  pc,         \* user -> position in the run loop
  cur,        \* user -> the task of the current iteration
  branch,     \* user -> chaos_monkey's action
  outcome,    \* user -> what the request of this iteration came to
  rec,        \* user -> what the HTTP client recorded in this iteration
  marks,      \* user -> response.success() / failure() calls made
  err,        \* user -> an exception reached the run loop in this iteration
  wait_len,   \* user -> the think time being waited, NoWait otherwise
  stages,     \* WaveShape.stages
  run_time,   \* last value of get_run_time()
  tick_data   \* last value returned by tick()

vars == << cls, pc, cur, branch, outcome, rec, marks, err, wait_len,
           stages, run_time, tick_data >>
userVars == << cls, pc, cur, branch, outcome, rec, marks, err, wait_len >>
shapeVars == << stages, run_time, tick_data >>

\* No other greenlet holds the thread in a blocking call.
CanRun(v) == \A u \in Users \ {v} : pc[u] \in Suspended => Yields(pc[u])

StartPc(c) == IF c = "WSUser" THEN "start" ELSE "ready"

InitUsers ==
  /\ cls \in [Users -> Classes]
  /\ \/ \A u \in Users : cls[u] \in LoadFile
     \/ \A u \in Users : cls[u] \in RootFile
  /\ pc = [u \in Users |-> StartPc(cls[u])]
  /\ cur = [u \in Users |-> NoTask]
  /\ branch = [u \in Users |-> NoBranch]
  /\ outcome = [u \in Users |-> NoOutcome]
  /\ rec = [u \in Users |-> NoRec]
  /\ marks = [u \in Users |-> {}]
  /\ err = [u \in Users |-> FALSE]
  /\ wait_len = [u \in Users |-> NoWait]

Init ==
  /\ InitUsers
  /\ stages = WaveStages
  /\ run_time = 0
  /\ tick_data = NotTicked

\* --------------------------------------------------------- Run loop
\* WSUser.on_start: self.connect("/ws"); a failed connect ends the user.
on_start(u) ==
  /\ pc[u] = "start" /\ cls[u] = "WSUser" /\ CanRun(u)
  /\ \E ok \in BOOLEAN :
       pc' = [pc EXCEPT ![u] = IF ok THEN "ready" ELSE "stopped"]
  /\ UNCHANGED << cls, cur, branch, outcome, rec, marks, err, wait_len, shapeVars >>

\* The harness picks the next task from the weighted task list.
SelectTask(u) ==
  /\ pc[u] = "ready" /\ CanRun(u)
  /\ \E e \in TaskPool(cls[u]) : cur' = [cur EXCEPT ![u] = e[1]]
  /\ pc' = [pc EXCEPT ![u] = "exec"]
  /\ UNCHANGED << cls, branch, outcome, rec, marks, err, wait_len, shapeVars >>

\* A task that issues one request: the user is suspended on it.
StartRequest(u, t) ==
  /\ pc[u] = "exec" /\ cur[u] = t /\ CanRun(u)
  /\ pc' = [pc EXCEPT ![u] = "request"]
  /\ UNCHANGED << cls, cur, branch, outcome, rec, marks, err, wait_len, shapeVars >>

index(u) == StartRequest(u, "index")
view_room(u) == StartRequest(u, "view_room")
auth_callback_smoke(u) == StartRequest(u, "auth_callback_smoke")
websocket_fallback_simulation(u) ==
  StartRequest(u, "websocket_fallback_simulation")
get_user(u) == StartRequest(u, "get_user")
create_room(u) == StartRequest(u, "create_room")

\* action = random.choice(["latency", "drop", "normal"]); the latency
\* branch sleeps before its request, the others issue theirs at once.
chaos_monkey(u) ==
  /\ pc[u] = "exec" /\ cur[u] = "chaos_monkey" /\ CanRun(u)
  /\ \E action \in {"latency", "drop", "normal"} :
       /\ branch' = [branch EXCEPT ![u] = action]
       /\ pc' = [pc EXCEPT ![u] = IF action = "latency" THEN "sleep"
                                                         ELSE "request"]
  /\ UNCHANGED << cls, cur, outcome, rec, marks, err, wait_len, shapeVars >>

\* time.sleep(...) is over: self.client.get("/api/health", ...)
SleepDone(u) ==
  /\ pc[u] = "sleep" /\ CanRun(u)
  /\ pc' = [pc EXCEPT ![u] = "request"]
  /\ UNCHANGED << cls, cur, branch, outcome, rec, marks, err, wait_len, shapeVars >>

\* The loop's step after the task: wait a think time, or go on at once.
Park(u, next) ==
  /\ pc' = [pc EXCEPT ![u] = next]
  /\ IF next = "wait"
       THEN \E w \in Uniform(WaitRange(cls[u])[1], WaitRange(cls[u])[2]) :
              wait_len' = [wait_len EXCEPT ![u] = w]
       ELSE wait_len' = [wait_len EXCEPT ![u] = NoWait]

\* The request comes to its outcome, the rest of the task body runs and the
\* task returns to (or raises into) the run loop.
Respond(u) ==
  /\ pc[u] = "request" /\ CanRun(u)
  /\ \E o \in Outcomes :
       LET t == cur[u]
           name == ReqName(t, branch[u])
           m == IF CatchResponse(t) THEN Marks(StatusOf(o)) ELSE {}
           raised == Raises(o) /\ ~InTry(t, branch[u])
       IN /\ outcome' = [outcome EXCEPT ![u] = o]
          /\ IF Raises(o)
               THEN UNCHANGED << rec, marks >>
               ELSE /\ marks' = [marks EXCEPT ![u] = m]
                    /\ rec' = [rec EXCEPT ![u] =
                                 IF CatchResponse(t)
                                   THEN ManualRecord(name, o, m)
                                   ELSE DefaultRecord(name, o)]
          /\ err' = [err EXCEPT ![u] = raised]
          /\ Park(u, AfterTask(raised))
  /\ UNCHANGED << cls, cur, branch, shapeVars >>

\* WSUser tasks: self.send(json.dumps(...)); a send on a broken socket
\* raises into the run loop.
Send(u, t) ==
  /\ pc[u] = "exec" /\ cur[u] = t /\ CanRun(u)
  /\ \E raised \in BOOLEAN :
       /\ err' = [err EXCEPT ![u] = raised]
       /\ Park(u, AfterTask(raised))
  /\ UNCHANGED << cls, cur, branch, outcome, rec, marks, shapeVars >>

join_room(u) == Send(u, "join_room")
broadcast(u) == Send(u, "broadcast")

\* The think time is over: the next iteration starts.
WaitDone(u) ==
  /\ pc[u] = "wait" /\ CanRun(u)
  /\ pc' = [pc EXCEPT ![u] = "ready"]
  /\ cur' = [cur EXCEPT ![u] = NoTask]
  /\ branch' = [branch EXCEPT ![u] = NoBranch]
  /\ outcome' = [outcome EXCEPT ![u] = NoOutcome]
  /\ rec' = [rec EXCEPT ![u] = NoRec]
  /\ marks' = [marks EXCEPT ![u] = {}]
  /\ err' = [err EXCEPT ![u] = FALSE]
  /\ wait_len' = [wait_len EXCEPT ![u] = NoWait]
  /\ UNCHANGED << cls, shapeVars >>

\* The harness asks the shape for the current target.
HasShape == \A u \in Users : cls[u] \in LoadFile
\* A tick whose scan uses up the stages it has looked at, as a loop over an
\* iterator would.
TickConsuming ==
  /\ HasShape
  /\ \A u \in Users : pc[u] \in Suspended => Yields(pc[u])
  /\ \E t \in Elapsed :
       LET later == { i \in 1..Len(stages) : t < stages[i].duration }
           seen == IF later = {} THEN Len(stages)
                   ELSE CHOOSE i \in later : \A j \in later : i <= j
       IN /\ t >= run_time
          /\ run_time' = t
          /\ tick_data' = tick(stages, t)
          /\ stages' = SubSeq(stages, seen + 1, Len(stages))
  /\ UNCHANGED userVars
Tick ==
  /\ HasShape
  /\ \A u \in Users : pc[u] \in Suspended => Yields(pc[u])
  /\ \E t \in Elapsed :
       /\ t >= run_time
       /\ run_time' = t
       /\ tick_data' = tick(stages, t)
  /\ UNCHANGED << stages, userVars >>

UserNext(u) ==
  \/ on_start(u)
  \/ SelectTask(u)
  \/ index(u)
  \/ view_room(u)
  \/ auth_callback_smoke(u)
  \/ websocket_fallback_simulation(u)
  \/ chaos_monkey(u)
  \/ SleepDone(u)
  \/ get_user(u)
  \/ create_room(u)
  \/ join_room(u)
  \/ broadcast(u)
  \/ Respond(u)
  \/ WaitDone(u)

Next == (\E u \in Users : UserNext(u)) \/ Tick

Spec == Init /\ [][Next]_vars

\* The shape alone, over every stage list and elapsed time.
InitTick ==
  /\ InitUsers
  /\ \A u \in Users : cls[u] \in LoadFile
  /\ stages \in StageLists
  /\ run_time = 0
  /\ tick_data = NotTicked

SpecTick == InitTick /\ [][Tick]_vars

\* --------------------------------------------------------- Claims
\* C1: for every stage list and every elapsed run time, tick returns
\* (users, spawn_rate) of the first stage in list order whose duration is
\* strictly greater than the elapsed time, and None when there is no such
\* stage (the empty list included); with the three example stages
\* tick(30) = (100, 10), tick(60) = (500, 20), tick(200) = None.
C1_TickFirstMatch ==
  tick_data # NotTicked =>
    LET later == { i \in 1..Len(stages) : run_time < stages[i].duration }
    IN /\ later = {} => tick_data = None
       /\ later # {} =>
            LET first == CHOOSE i \in later : \A j \in later : i <= j
            IN tick_data = << stages[first].users, stages[first].spawn_rate >>
       /\ stages = ExampleStages /\ run_time = 30 => tick_data = <<100, 10>>
       /\ stages = ExampleStages /\ run_time = 60 => tick_data = <<500, 20>>
       /\ stages = ExampleStages /\ run_time = 200 => tick_data = None

\* tick(60) on the example stages has moved on to the second stage.
C1_Witness ==
  /\ stages = ExampleStages /\ run_time = 60 /\ tick_data = <<500, 20>>

InDrop(u) == cur[u] = "chaos_monkey" /\ branch[u] = "drop"

\* C2: the 'drop' branch of chaos_monkey never raises to its caller,
\* whatever its request comes to (a response, a timeout, a connection error,
\* any other exception): the task returns, the run loop sees no exception
\* and the user goes on to its think time and the next iteration.
C2_DropNeverRaises ==
  \A u \in Users :
    InDrop(u) =>
      /\ ~err[u]
      /\ pc[u] \in {"request", "wait"}
      /\ outcome[u] # NoOutcome => pc[u] = "wait" /\ ENABLED WaitDone(u)

\* The request of a 'drop' raised and the user is in its think time.
C2_Witness ==
  \E u \in Users :
    InDrop(u) /\ outcome[u].kind = "raise" /\ pc[u] = "wait" /\ ~err[u]

\* C3: a timeout or connection error of the 'drop' request is never recorded
\* as a failure of the run; nothing but the chaos action having run is
\* recorded.
C3_DropErrorNotRecordedAsFailure ==
  \A u \in Users :
    InDrop(u) /\ outcome[u].kind \in NetErrors => rec[u].result # "failure"

\* C4: for every action of VibeZUser, all branches of chaos_monkey
\* included, a request that fails with a network error becomes a recorded
\* outcome of that request; no exception reaches the run loop, the user is
\* in its think time and goes on to the next iteration, and no user stops.
C4_NetErrorsBecomeOutcomes ==
  \A u \in Users :
    cls[u] = "VibeZUser" =>
      /\ pc[u] # "stopped"
      /\ outcome[u].kind \in NetErrors =>
           /\ rec[u].name = ReqName(cur[u], branch[u])
           /\ rec[u].result = "failure"
           /\ ~err[u]
           /\ pc[u] = "wait"
           /\ ENABLED WaitDone(u)

\* A plain task and a chaos branch outside the try block both met a network
\* error and are in their think time.
C4_Witness ==
  \E u, v \in Users :
    /\ cur[u] = "index" /\ outcome[u].kind = "ConnectionError"
    /\ cur[v] = "chaos_monkey" /\ branch[v] = "latency"
    /\ outcome[v].kind = "Timeout"
    /\ pc[u] = "wait" /\ pc[v] = "wait"

\* C5: websocket_fallback_simulation marks its response success exactly for
\* the status codes 200, 401 and 403 and failure for every other one; each
\* response gets exactly one of the two marks, and the mark is what is
\* recorded.
C5_FallbackMarks ==
  \A u \in Users :
    cur[u] = "websocket_fallback_simulation"
      /\ outcome[u].kind \in {"response"} \cup NetErrors =>
        /\ Cardinality(marks[u]) = 1
        /\ ("success" \in marks[u]) <=> (outcome[u].status \in {200, 401, 403})
        /\ ("failure" \in marks[u]) <=> (outcome[u].status \notin {200, 401, 403})
        /\ rec[u].result \in marks[u]

\* One fallback poll answered 401 and marked success, another answered 500
\* and marked failure.
C5_Witness ==
  \E u, v \in Users :
    /\ cur[u] = "websocket_fallback_simulation" /\ outcome[u].status = 401
    /\ marks[u] = {"success"}
    /\ cur[v] = "websocket_fallback_simulation" /\ outcome[v].status = 500
    /\ marks[v] = {"failure"}

\* The tasks each class declares, as the claim lists them.
ClaimedTasks(c) ==
  IF c = "VibeZUser"
    THEN {"index", "view_room", "auth_callback_smoke",
          "websocket_fallback_simulation", "chaos_monkey"}
    ELSE IF c = "ApiUser" THEN {"get_user", "create_room"}
    ELSE {"join_room", "broadcast"}

\* C6: the task a user executes is always one declared on its class, and at
\* every selection each declared task can be chosen, whatever the user
\* selected before.
C6_SelectWithinDeclared ==
  \A u \in Users :
    /\ cur[u] # NoTask => cur[u] \in ClaimedTasks(cls[u])
    /\ pc[u] = "ready" =>
         \A t \in ClaimedTasks(cls[u]) :
           ENABLED (SelectTask(u) /\ cur'[u] = t)

\* A user whose previous iteration is over has selected chaos_monkey while
\* the other user runs a task of its own.
C6_Witness ==
  \E u, v \in Users :
    /\ pc[u] = "exec" /\ cur[u] = "chaos_monkey"
    /\ pc[v] = "request" /\ cur[v] = "view_room"

\* C8: a user's loop is strictly sequential: a task is selected only when
\* none is in flight, the selected task then runs to its end, the think time
\* follows, and only after the think time is the next task selected.
C8_Sequential ==
  [][ \A u \in Users :
        /\ (cur'[u] # cur[u] /\ cur'[u] # NoTask) =>
             pc[u] = "ready" /\ cur[u] = NoTask /\ pc'[u] = "exec"
        /\ (pc[u] = "exec" /\ pc'[u] # "exec") =>
             pc'[u] \in {"sleep", "request", "wait"} /\ cur'[u] = cur[u]
        /\ (pc[u] = "sleep" /\ pc'[u] # "sleep") =>
             pc'[u] = "request" /\ cur'[u] = cur[u]
        /\ (pc[u] = "request" /\ pc'[u] # "request") =>
             pc'[u] = "wait" /\ cur'[u] = cur[u]
        /\ (pc'[u] = "wait" /\ pc[u] # "wait") => wait_len'[u] # NoWait
        /\ (pc[u] = "wait" /\ pc'[u] # "wait") =>
             pc'[u] = "ready" /\ cur'[u] = NoTask
        /\ (pc'[u] = "ready" /\ pc[u] # "ready") =>
             pc[u] \in {"wait", "start"}
    ]_vars

\* A task that raised into the run loop is followed by its think time.
C8_Witness ==
  \E u \in Users : pc[u] = "wait" /\ err[u] /\ wait_len[u] # NoWait

\* C9: a user in its think time or in the latency sleep blocks nobody else:
\* every other running user can take its next step and the shape can be
\* ticked.
C9_PausesBlockOnlyTheirUser ==
  \A u \in Users :
    pc[u] \in {"wait", "sleep"} =>
      /\ \A v \in Users \ {u} : pc[v] # "stopped" => ENABLED UserNext(v)
      /\ HasShape => ENABLED Tick

\* One user sleeps in the latency branch while the other has a request in
\* flight and the shape has been ticked.
C9_Witness ==
  \E u, v \in Users :
    /\ pc[u] = "sleep" /\ pc[v] = "request" /\ tick_data # NotTicked

\* C10: every think time is non-negative and within the inclusive range of
\* the user's class: [1, 5] seconds for VibeZUser, [5, 10] for ApiUser and
\* WSUser (times in units of 1/UniformSteps second).
C10_ThinkTimeInRange ==
  \A u \in Users :
    pc[u] = "wait" =>
      /\ wait_len[u] >= 0
      /\ cls[u] = "VibeZUser" =>
           1 * UniformSteps <= wait_len[u] /\ wait_len[u] <= 5 * UniformSteps
      /\ cls[u] \in {"ApiUser", "WSUser"} =>
           5 * UniformSteps <= wait_len[u] /\ wait_len[u] <= 10 * UniformSteps

\* A VibeZUser waits the maximum of its range while another waits the
\* minimum.
C10_Witness ==
  \E u, v \in Users :
    /\ cls[u] = "VibeZUser" /\ pc[u] = "wait" /\ wait_len[u] = 5 * UniformSteps
    /\ cls[v] = "VibeZUser" /\ pc[v] = "wait" /\ wait_len[v] = 1 * UniformSteps

\* C11: tick is a pure function of the elapsed run time: a tick at the same
\* run time as the tick before it returns the same value, whatever ticks came
\* before, and no tick changes the stage list or the state of any user.
C11_TickPure ==
  [][ /\ stages' = stages
      /\ userVars' = userVars
      /\ (tick_data # NotTicked /\ run_time' = run_time) =>
           tick_data' = tick_data
    ]_vars

\* The configured shape has been ticked at 120 s, in its third stage.
C11_Witness ==
  /\ stages = WaveStages /\ run_time = 120 /\ tick_data = <<1000, 50>>

\* The largest boundary of the stages before stage i, 0 when there is none.
MaxBefore(i) ==
  LET before == {0} \cup { stages[j].duration : j \in 1..(i - 1) }
  IN CHOOSE m \in before : \A d \in before : d <= m
InWindow(i) == MaxBefore(i) <= run_time /\ run_time < stages[i].duration
Returned(i) == << stages[i].users, stages[i].spawn_rate >>

\* C12: tick is first-match-wins over the boundaries as listed, with no
\* reordering and no adding up: stage i is returned exactly for the run
\* times from the largest boundary before it (0 if none) up to, not
\* including, its own boundary, and None when no stage has such a run time;
\* so a stage whose boundary is not above an earlier one is never returned.
\* With durations 60, 60, 60 only the first stage is ever returned and tick
\* returns None from 60 s on.
C12_LiteralFirstMatch ==
  tick_data # NotTicked =>
    LET idx == 1..Len(stages)
    IN /\ \A i \in idx : InWindow(i) => tick_data = Returned(i)
       /\ tick_data # None =>
            \E i \in idx : InWindow(i) /\ tick_data = Returned(i)
       /\ \A i \in idx :
            /\ \E j \in 1..(i - 1) : stages[i].duration <= stages[j].duration
            /\ \A j \in idx \ {i} : Returned(j) # Returned(i)
            => tick_data # Returned(i)
       /\ stages = RelativeStages =>
            /\ run_time < 60 => tick_data = <<100, 10>>
            /\ run_time >= 60 => tick_data = None

\* Relative durations 60, 60, 60 ticked at 60 s: the run is over.
C12_Witness ==
  /\ stages = RelativeStages /\ run_time = 60 /\ tick_data = None

\* Position of a tick result among the configured stages, one past the last
\* for None.
ConfiguredIndex(td) ==
  IF td = None THEN Len(WaveStages) + 1
  ELSE CHOOSE i \in 1..(Len(WaveStages) + 1) :
         \/ i <= Len(WaveStages)
            /\ td = << WaveStages[i].users, WaveStages[i].spawn_rate >>
         \/ i = Len(WaveStages) + 1
            /\ \A j \in 1..Len(WaveStages) :
                 td # << WaveStages[j].users, WaveStages[j].spawn_rate >>

\* C13: with the configured stages (boundaries 60, 120, 180, 240, 300) and a
\* run time that never decreases, successive ticks never move back to an
\* earlier stage, and once a tick has returned None every later one does.
C13_NeverBackwards ==
  [][ (stages = WaveStages /\ tick_data # NotTicked /\ run_time' >= run_time) =>
        /\ ConfiguredIndex(tick_data') >= ConfiguredIndex(tick_data)
        /\ tick_data = None => tick_data' = None
    ]_vars

\* The configured shape ticked past its last boundary: the run is over.
C13_Witness ==
  /\ stages = WaveStages /\ run_time = 330 /\ tick_data = None

====
